---- MODULE Spec2Model ----
(***************************************************************************)
(* plot_waveform.py: one run of main() -- load the JSON input, validate    *)
(* its structure, derive the time axis and the min/max envelopes, hand     *)
(* them to the plotting library, exit.                                     *)
(***************************************************************************)
EXTENDS Integers, Sequences, FiniteSets, TLC

VARIABLES argv, file_status, content,
          pc, data, stderr, exit_code, uncaught, steps,
          sample_rate, samples_per_pixel, channels, waveform_data,
          time_per_pixel, time_axis, min_values, max_values, fig, shown

vars == <<argv, file_status, content, pc, data, stderr, exit_code, uncaught,
          steps, sample_rate, samples_per_pixel, channels, waveform_data,
          time_per_pixel, time_axis, min_values, max_values, fig, shown>>

-----------------------------------------------------------------------------
(* Bounds of the model *)

MaxLen == 3
MaxAxisLen == 8

-----------------------------------------------------------------------------
(* JSON values as json.load builds them *)

Keys == {"sample_rate", "samples_per_pixel", "channels", "data"}

Atom(t, n, s) == [type |-> t, num |-> n, str |-> s, items |-> <<>>]
JNull == Atom("null", 0, "")
JNum(n) == Atom("number", n, "")
JStr(s) == Atom("string", 0, s)
JArr(xs) == [type |-> "array", num |-> 0, str |-> "", items |-> xs]
Unbound == Atom("unbound", 0, "")

NoMembers == [k \in Keys |-> JNull]

\* a parsed top-level value: a JSON value plus, for an object, its members
Top(v, ks, ms) ==
  [type |-> v.type, num |-> v.num, str |-> v.str, items |-> v.items,
   keys |-> ks, members |-> ms]

JObject(ks, sr, spp, ch, d) ==
  Top(Atom("object", 0, ""), ks,
      [k \in Keys |-> IF k \notin ks THEN JNull
                      ELSE CASE k = "sample_rate" -> sr
                             [] k = "samples_per_pixel" -> spp
                             [] k = "channels" -> ch
                             [] OTHER -> d])

NoData == Top(Unbound, {}, NoMembers)

-----------------------------------------------------------------------------
(* Python built-ins used by the script *)

isinstance(v, t) == v.type = t

\* key in dict
dict_contains(d, k) == k \in d.keys

\* dict[key]
dict_getitem(d, k) == d.members[k]

\* dict.get(key) or default: a falsy value is replaced as well
dict_get_or_default(d, k, default) ==
  IF k \in d.keys /\ d.members[k] \notin {JNull, JNum(0), JStr(""), JArr(<<>>)}
  THEN d.members[k] ELSE default

\* dict.get(key, default)
dict_get(d, k, default) == IF k \in d.keys THEN d.members[k] ELSE default

\* len(list)
py_len(v) == Len(v.items)

\* list(range(start, stop, step)) for step > 0
py_range(start, stop, step) ==
  LET n == IF stop > start THEN (stop - start + step - 1) \div step ELSE 0
  IN  [k \in 1..n |-> start + (k - 1) * step]

-----------------------------------------------------------------------------
(* Python float arithmetic (IEEE 754 binary64, round to nearest even).     *)
(* A float is sign * M * 2^exp with the 53-bit significand M kept as the   *)
(* leading bit followed by four 13-bit limbs; zero has sign 0 (0.0 and     *)
(* -0.0 compare equal in Python).                                          *)

Prec == 53
LimbBits == 13
Limbs == (Prec - 1) \div LimbBits
Base == 2 ^ LimbBits

Sgn(n) == IF n > 0 THEN 1 ELSE IF n < 0 THEN -1 ELSE 0
Abs(n) == IF n < 0 THEN -n ELSE n

FZero == [sign |-> 0, exp |-> 0, mant |-> <<0, 0, 0, 0, 0>>]

\* a/b = (s.a / s.b) * 2^s.e with s.b <= s.a < 2 * s.b
RECURSIVE Scale(_, _, _)
Scale(a, b, e) ==
  IF a < b THEN Scale(2 * a, b, e - 1)
  ELSE IF a >= 2 * b THEN Scale(a, 2 * b, e + 1)
  ELSE [a |-> a, b |-> b, e |-> e]

\* the significand m incremented by one unit in the last place
RoundUp(sign, e, m) ==
  IF \A j \in 2..(Limbs + 1) : m[j] = Base - 1
  THEN [sign |-> sign, exp |-> e + 1, mant |-> <<1, 0, 0, 0, 0>>]
  ELSE [sign |-> sign, exp |-> e,
        mant |-> [j \in 1..(Limbs + 1) |->
                    IF \A k \in (j + 1)..(Limbs + 1) : m[k] = Base - 1
                    THEN (m[j] + 1) % Base ELSE m[j]]]

\* half: the first dropped bit; sticky: some later dropped bit is set
RoundNearestEven(sign, e, m, half, sticky) ==
  IF half /\ (sticky \/ m[Limbs + 1] % 2 = 1)
  THEN RoundUp(sign, e, m)
  ELSE [sign |-> sign, exp |-> e, mant |-> m]

\* int / int (b # 0): the correctly rounded quotient
py_truediv(a, b) ==
  IF a = 0 THEN FZero
  ELSE LET s == Scale(Abs(a), Abs(b), 0)
           r0 == s.a - s.b
           d1 == (r0 * Base) \div s.b
           r1 == (r0 * Base) % s.b
           d2 == (r1 * Base) \div s.b
           r2 == (r1 * Base) % s.b
           d3 == (r2 * Base) \div s.b
           r3 == (r2 * Base) % s.b
           d4 == (r3 * Base) \div s.b
           r4 == (r3 * Base) % s.b
       IN  RoundNearestEven(Sgn(a) * Sgn(b), s.e - (Prec - 1),
                            <<1, d1, d2, d3, d4>>,
                            2 * r4 >= s.b, (2 * r4) % s.b # 0)

RECURSIVE BitLength(_)
BitLength(n) == IF n = 0 THEN 0 ELSE 1 + BitLength(n \div 2)

\* int * float: the correctly rounded product
py_mul(i, f) ==
  IF i = 0 \/ f.sign = 0 THEN FZero
  ELSE LET n == Abs(i)
           t4 == f.mant[5] * n
           t3 == f.mant[4] * n + t4 \div Base
           t2 == f.mant[3] * n + t3 \div Base
           t1 == f.mant[2] * n + t2 \div Base
           t0 == f.mant[1] * n + t1 \div Base
           p == <<t0, t1 % Base, t2 % Base, t3 % Base, t4 % Base>>
           k == BitLength(t0) - 1
           lo == 2 ^ k
           hi == 2 ^ (LimbBits - k)
           m == [j \in 1..(Limbs + 1) |->
                   IF j = 1 THEN p[1] \div lo
                   ELSE (p[j - 1] % lo) * hi + p[j] \div lo]
           dropped == p[Limbs + 1] % lo
       IN  RoundNearestEven(Sgn(i) * f.sign, f.exp + k, m,
                            k >= 1 /\ dropped \div (2 ^ (k - 1)) = 1,
                            k >= 1 /\ dropped % (2 ^ (k - 1)) # 0)

MantLt(a, b) ==
  \E k \in 1..(Limbs + 1) : a[k] < b[k] /\ \A j \in 1..(k - 1) : a[j] = b[j]

MagLt(a, b) == a.exp < b.exp \/ (a.exp = b.exp /\ MantLt(a.mant, b.mant))

\* float < float
py_lt(a, b) ==
  CASE a.sign < b.sign -> TRUE
    [] a.sign > b.sign -> FALSE
    [] a.sign = 0 -> FALSE
    [] a.sign = 1 -> MagLt(a, b)
    [] OTHER -> MagLt(b, a)

-----------------------------------------------------------------------------
(* main(): loading, lines 90-108 *)

Script == "plot_waveform.py"

Ok(v) == [outcome |-> "ok", line |-> <<>>, exc |-> "", value |-> v]
Exit1(line) == [outcome |-> "exit", line |-> line, exc |-> "", value |-> NoData]
Raise(e) == [outcome |-> "raise", line |-> <<>>, exc |-> e, value |-> NoData]

\* no handler for FileNotFoundError: the exception leaves main
load_without_not_found_handler(av, fs, c) ==
  IF Len(av) > 1
  THEN CASE fs = "missing" -> Raise("FileNotFoundError")
         [] fs = "unreadable" -> Raise("PermissionError")
         [] ~c.valid ->
              Exit1(<<"Error: Invalid JSON in file '", av[2], "': ", c.diag>>)
         [] OTHER -> Ok(c.value)
  ELSE IF ~c.valid
       THEN Exit1(<<"Error: Invalid JSON from stdin: ", c.diag>>)
       ELSE Ok(c.value)

load(av, fs, c) ==
  IF Len(av) > 1
  THEN CASE fs = "missing" ->
              Exit1(<<"Error: File '", av[2], "' not found">>)
         [] fs = "unreadable" -> Raise("PermissionError")
         [] ~c.valid ->
              Exit1(<<"Error: Invalid JSON in file '", av[2], "': ", c.diag>>)
         [] OTHER -> Ok(c.value)
  ELSE IF ~c.valid
       THEN Exit1(<<"Error: Invalid JSON from stdin: ", c.diag>>)
       ELSE Ok(c.value)

\* the key test made before the object test
validate_key_first(d) ==
  IF ~dict_contains(d, "data")
  THEN "Error: JSON data must contain 'data' field"
  ELSE IF ~isinstance(d, "object") THEN "Error: JSON data must be an object"
  ELSE IF ~isinstance(dict_getitem(d, "data"), "array")
       THEN "Error: 'data' field must be an array"
  ELSE IF py_len(dict_getitem(d, "data")) = 0
       THEN "Error: 'data' field is empty"
  ELSE ""

\* the emptiness test left out
validate_without_empty_check(d) ==
  IF ~isinstance(d, "object") THEN "Error: JSON data must be an object"
  ELSE IF ~dict_contains(d, "data")
       THEN "Error: JSON data must contain 'data' field"
  ELSE IF ~isinstance(dict_getitem(d, "data"), "array")
       THEN "Error: 'data' field must be an array"
  ELSE ""

(* main(): the structural checks, lines 110-125; "" when all pass *)
validate(d) ==
  IF ~isinstance(d, "object") THEN "Error: JSON data must be an object"
  ELSE IF ~dict_contains(d, "data")
       THEN "Error: JSON data must contain 'data' field"
  ELSE IF ~isinstance(dict_getitem(d, "data"), "array")
       THEN "Error: 'data' field must be an array"
  ELSE IF py_len(dict_getitem(d, "data")) = 0
       THEN "Error: 'data' field is empty"
  ELSE ""

-----------------------------------------------------------------------------
(* plot_waveform(): the transformation, lines 19-34 *)

DefaultSampleRate == 44100
DefaultSamplesPerPixel == 256
DefaultChannels == 1

\* the exception samples_per_pixel / sample_rate raises, "" when it returns
truediv_raises(a, b) ==
  IF ~(isinstance(a, "number") /\ isinstance(b, "number")) THEN "TypeError"
  ELSE IF b.num = 0 THEN "ZeroDivisionError"
  ELSE ""

time_per_pixel_of(spp, sr) == py_truediv(spp.num, sr.num)

num_pixels_of(wd) == py_len(wd) \div 2

\* range(1, num_pixels + 1) in place of range(num_pixels)
time_axis_from_one(tpp, n) ==
  LET r == py_range(1, n + 1, 1)
  IN  [k \in 1..Len(r) |-> py_mul(r[k], tpp)]

time_axis_of(tpp, n) ==
  LET r == py_range(0, n, 1)
  IN  [k \in 1..Len(r) |-> py_mul(r[k], tpp)]

\* the odd-indexed entries taken as minima
min_values_from_odd(wd) ==
  LET r == py_range(1, py_len(wd), 2)
  IN  [k \in 1..Len(r) |-> wd.items[r[k] + 1]]

min_values_of(wd) ==
  LET r == py_range(0, py_len(wd), 2)
  IN  [k \in 1..Len(r) |-> wd.items[r[k] + 1]]

\* range(1, len - 1, 2): the last pair is cut off
max_values_cut_short(wd) ==
  LET r == py_range(1, py_len(wd) - 1, 2)
  IN  [k \in 1..Len(r) |-> wd.items[r[k] + 1]]

max_values_of(wd) ==
  LET r == py_range(1, py_len(wd), 2)
  IN  [k \in 1..Len(r) |-> wd.items[r[k] + 1]]

\* a handler around the call that reports the exception and exits
propagate_caught(e) == [line |-> <<"Error: ", e>>, uncaught |-> ""]

\* an exception leaving plot_waveform meets no handler in main (line 128)
propagate(e) == [line |-> <<>>, uncaught |-> e]

-----------------------------------------------------------------------------
(* The inputs of a run: the command line, the file system, the input text *)

Filenames == {"wave.json", "other.json"}

Diagnostics == {"Expecting value: line 1 column 1 (char 0)",
                "Extra data: line 1 column 3 (char 2)"}

Entries == {JNum(-1), JNum(2), JStr("x")}

Arrays == UNION {[1..n -> Entries] : n \in 0..MaxLen}

DataChoices == {JNull, JStr("abc"), JNum(7)} \cup {JArr(xs) : xs \in Arrays}
RateChoices == {JNum(0), JNum(4), JNum(-2), JNull}
StepChoices == {JNum(6), JNum(-3), JStr("256")}
ChannelChoices == {JNum(2)}

\* documents with every mix of present and absent keys and of entry types
ShapeDocs ==
  {JObject(ks, sr, spp, ch, d) :
     ks \in SUBSET Keys, sr \in RateChoices, spp \in StepChoices,
     ch \in ChannelChoices, d \in DataChoices}

\* documents with numeric metadata and longer data [1, 2, .., n]
AxisDocs ==
  {JObject(ks \cup {"data"}, sr, spp, JNull, JArr([k \in 1..n |-> JNum(k)])) :
     ks \in SUBSET {"sample_rate", "samples_per_pixel"},
     sr \in {JNum(10), JNum(3)}, spp \in {JNum(1), JNum(6)},
     n \in 1..MaxAxisLen}

NonObjects ==
  {Top(v, {}, NoMembers) :
     v \in {JNull, JNum(5), JStr("data"), JArr(<<>>), JArr(<<JStr("data")>>)}}

Values == ShapeDocs \cup AxisDocs \cup NonObjects

NoContent == [valid |-> FALSE, value |-> NoData, diag |-> ""]

Contents ==
  {[valid |-> TRUE, value |-> v, diag |-> ""] : v \in Values}
    \cup {[valid |-> FALSE, value |-> NoData, diag |-> g] : g \in Diagnostics}

Init ==
  /\ \/ /\ argv = <<Script>>
        /\ file_status = "none"
        /\ content \in Contents
     \/ /\ argv \in {<<Script, f>> : f \in Filenames}
        /\ \/ file_status \in {"missing", "unreadable"} /\ content = NoContent
           \/ file_status = "readable" /\ content \in Contents
  /\ pc = "load"
  /\ data = NoData
  /\ stderr = <<>>
  /\ exit_code = -1
  /\ uncaught = ""
  /\ steps = <<>>
  /\ sample_rate = Unbound
  /\ samples_per_pixel = Unbound
  /\ channels = Unbound
  /\ waveform_data = Unbound
  /\ time_per_pixel = FZero
  /\ time_axis = <<>>
  /\ min_values = <<>>
  /\ max_values = <<>>
  /\ fig = <<>>
  /\ shown = 0

-----------------------------------------------------------------------------
(* The steps of a run *)

plot_locals == <<sample_rate, samples_per_pixel, channels, waveform_data,
                 time_per_pixel, time_axis, min_values, max_values>>

\* main, lines 90-108
Load ==
  /\ pc = "load"
  /\ LET r == load(argv, file_status, content)
     IN  /\ data' = r.value
         /\ stderr' = IF r.outcome = "exit" THEN Append(stderr, r.line) ELSE stderr
         /\ uncaught' = r.exc
         /\ exit_code' = IF r.outcome = "ok" THEN exit_code ELSE 1
         /\ pc' = IF r.outcome = "ok" THEN "validate" ELSE "exited"
         /\ steps' = IF r.outcome = "ok" THEN Append(steps, "load")
                     ELSE steps \o <<"load", "exit">>
  /\ UNCHANGED <<argv, file_status, content, plot_locals, fig, shown>>

\* main, lines 110-125
Validate ==
  /\ pc = "validate"
  /\ LET msg == validate(data)
     IN  /\ stderr' = IF msg = "" THEN stderr ELSE Append(stderr, <<msg>>)
         /\ exit_code' = IF msg = "" THEN exit_code ELSE 1
         /\ pc' = IF msg = "" THEN "transform" ELSE "exited"
         /\ steps' = IF msg = "" THEN Append(steps, "validate")
                     ELSE steps \o <<"validate", "exit">>
  /\ UNCHANGED <<argv, file_status, content, data, uncaught, plot_locals,
                 fig, shown>>

\* plot_waveform, lines 19-34, leaving the document as doc
TransformStep(doc) ==
  /\ pc = "transform"
  /\ LET sr == dict_get(data, "sample_rate", JNum(DefaultSampleRate))
         spp == dict_get(data, "samples_per_pixel", JNum(DefaultSamplesPerPixel))
         ch == dict_get(data, "channels", JNum(DefaultChannels))
         wd == dict_get(data, "data", JArr(<<>>))
         exc == truediv_raises(spp, sr)
         tpp == time_per_pixel_of(spp, sr)
     IN  /\ sample_rate' = sr
         /\ samples_per_pixel' = spp
         /\ channels' = ch
         /\ waveform_data' = wd
         /\ IF exc # ""
            THEN /\ stderr' = IF propagate(exc).line = <<>> THEN stderr
                              ELSE Append(stderr, propagate(exc).line)
                 /\ uncaught' = propagate(exc).uncaught
                 /\ exit_code' = 1
                 /\ pc' = "exited"
                 /\ steps' = steps \o <<"transform", "exit">>
                 /\ UNCHANGED <<time_per_pixel, time_axis, min_values, max_values>>
            ELSE /\ time_per_pixel' = tpp
                 /\ time_axis' = time_axis_of(tpp, num_pixels_of(wd))
                 /\ min_values' = min_values_of(wd)
                 /\ max_values' = max_values_of(wd)
                 /\ pc' = "render"
                 /\ steps' = Append(steps, "transform")
                 /\ UNCHANGED <<stderr, uncaught, exit_code>>
  /\ data' = doc
  /\ UNCHANGED <<argv, file_status, content, fig, shown>>

\* data.pop('data') in place of data.get('data', [])
dict_pop(d, k) == [d EXCEPT !.keys = @ \ {k}, !.members[k] = JNull]

TransformPopsData == TransformStep(dict_pop(data, "data"))

Transform == TransformStep(data)

\* plot_waveform, lines 36-85: the figure is built and handed to fig.show()
Render ==
  /\ pc = "render"
  /\ fig' = <<[name |-> "Max", x |-> time_axis, y |-> max_values],
              [name |-> "Min", x |-> time_axis, y |-> min_values]>>
  /\ shown' = shown + 1
  /\ pc' = "return"
  /\ steps' = Append(steps, "render")
  /\ UNCHANGED <<argv, file_status, content, data, stderr, exit_code, uncaught,
                 plot_locals>>

\* main returns (line 128) and the interpreter exits with status 0
Exit ==
  /\ pc = "return"
  /\ exit_code' = 0
  /\ pc' = "exited"
  /\ steps' = Append(steps, "exit")
  /\ UNCHANGED <<argv, file_status, content, data, stderr, uncaught,
                 plot_locals, fig, shown>>

Next == Load \/ Validate \/ Transform \/ Render \/ Exit

Spec == Init /\ [][Next]_vars

-----------------------------------------------------------------------------
(* Properties *)

Did(step) == \E i \in 1..Len(steps) : steps[i] = step

\* plot_waveform has computed its three sequences
Transformed == pc = "render" \/ Did("render")

DataItems == data.members["data"].items

\* C1: for data of any length L >= 1, odd L included, the renderer is handed
\* a time axis, minima and maxima of exactly floor(L/2) entries each; a
\* trailing unpaired element is dropped from all three.
C1_SeriesAllHalfLength ==
  shown = 1 =>
    /\ Len(DataItems) >= 1
    /\ \A t \in 1..Len(fig) :
         /\ Len(fig[t].x) = Len(DataItems) \div 2
         /\ Len(fig[t].y) = Len(DataItems) \div 2

C3_PairsCopiedInOrder ==
  Transformed =>
    \A i \in 0..(Len(DataItems) \div 2 - 1) :
      /\ min_values[i + 1] = DataItems[2 * i + 1]
      /\ max_values[i + 1] = DataItems[2 * i + 2]

C3_Witness ==
  /\ Transformed
  /\ DataItems = <<JStr("x"), JNum(-1), JNum(2)>>
  /\ min_values[1] = JStr("x")
  /\ max_values[1] = JNum(-1)

BothPositive ==
  /\ isinstance(sample_rate, "number") /\ sample_rate.num > 0
  /\ isinstance(samples_per_pixel, "number") /\ samples_per_pixel.num > 0

AxisStartsAtZeroAndIncreases ==
  /\ Len(time_axis) = Len(DataItems) \div 2
  /\ Len(time_axis) >= 1 => time_axis[1] = FZero
  /\ BothPositive =>
       \A k \in 1..(Len(time_axis) - 1) : py_lt(time_axis[k], time_axis[k + 1])

C8_DefaultsOnlyWhenAbsent ==
  Did("transform") =>
    /\ sample_rate = IF "sample_rate" \in data.keys
                     THEN data.members["sample_rate"] ELSE JNum(44100)
    /\ samples_per_pixel = IF "samples_per_pixel" \in data.keys
                           THEN data.members["samples_per_pixel"] ELSE JNum(256)
    /\ data.keys = {"data"} =>
         /\ Transformed
         /\ time_per_pixel = py_truediv(256, 44100)

C8_Witness ==
  /\ Did("transform")
  /\ data.keys = {"data"}
  /\ sample_rate = JNum(44100)
  /\ samples_per_pixel = JNum(256)

C8_WitnessPresent ==
  /\ Did("transform")
  /\ "sample_rate" \in data.keys
  /\ sample_rate = JNull

Loaded == pc = "validate" \/ Did("validate")

Halted(lines) ==
  /\ pc = "exited"
  /\ exit_code = 1
  /\ stderr = lines
  /\ uncaught = ""
  /\ shown = 0
  /\ ~Did("transform")
  /\ ~Did("render")

AllChecksPass ==
  /\ data.type = "object"
  /\ "data" \in data.keys
  /\ data.members["data"].type = "array"
  /\ data.members["data"].items # <<>>

\* C4: validation reports only the first failing check, in the order: not
\* an object, no `data` key, `data` not an array, `data` empty; each ends
\* the run with exit code 1 and exactly one error line, and plot_waveform
\* is never called.
C4_FirstFailingCheckReported ==
  Did("validate") =>
    IF data.type # "object"
    THEN Halted(<< <<"Error: JSON data must be an object">> >>)
    ELSE IF "data" \notin data.keys
    THEN Halted(<< <<"Error: JSON data must contain 'data' field">> >>)
    ELSE IF data.members["data"].type # "array"
    THEN Halted(<< <<"Error: 'data' field must be an array">> >>)
    ELSE IF data.members["data"].items = <<>>
    THEN Halted(<< <<"Error: 'data' field is empty">> >>)
    ELSE stderr = <<>>

C4_Witness ==
  /\ Did("validate")
  /\ data.type = "array"
  /\ data.items = <<JStr("data")>>
  /\ Halted(<< <<"Error: JSON data must be an object">> >>)

NotFoundLines ==
  {<<"Error: File '", f, "' not found">> : f \in Filenames \cup {Script}}

\* C5: a missing file ends the run with one `Error:` line naming the file
\* and saying "not found"; invalid JSON from the file or from standard input
\* ends it with one `Error:` line carrying the parse diagnostic; in both
\* cases the exit code is 1, no validation check runs, load is not retried
\* and the renderer is never called; no "not found" line is written when the
\* input comes from standard input.
C5_LoadFailureClassified ==
  Did("load") =>
    /\ Len(argv) > 1 /\ file_status = "missing" =>
         /\ Halted(<< <<"Error: File '", argv[2], "' not found">> >>)
         /\ steps = <<"load", "exit">>
    /\ file_status = "readable" /\ ~content.valid =>
         /\ Halted(<< <<"Error: Invalid JSON in file '", argv[2], "': ",
                        content.diag>> >>)
         /\ steps = <<"load", "exit">>
    /\ Len(argv) = 1 /\ ~content.valid =>
         /\ Halted(<< <<"Error: Invalid JSON from stdin: ", content.diag>> >>)
         /\ steps = <<"load", "exit">>
    /\ Len(argv) = 1 => \A i \in 1..Len(stderr) : stderr[i] \notin NotFoundLines

C5_Witness ==
  /\ Len(argv) > 1
  /\ file_status = "missing"
  /\ Halted(<< <<"Error: File '", argv[2], "' not found">> >>)
  /\ steps = <<"load", "exit">>

Rank(st) ==
  CASE st = "load" -> 1
    [] st = "validate" -> 2
    [] st = "transform" -> 3
    [] st = "render" -> 4
    [] OTHER -> 5

\* C6: the steps of a run occur in the order load, validate, transform,
\* render, exit, each at most once; fig.show is reached only after a
\* successful load and four passed checks and never after an error line;
\* the exit code is 0 exactly when the render hand-off was made and 1 after
\* a validation, parse or file-not-found failure.
C6_StrictSequence ==
  /\ \A i, j \in 1..Len(steps) : i < j => Rank(steps[i]) < Rank(steps[j])
  /\ shown = (IF Did("render") THEN 1 ELSE 0)
  /\ Did("render") =>
       /\ SubSeq(steps, 1, 4) = <<"load", "validate", "transform", "render">>
       /\ stderr = <<>>
       /\ content.valid
       /\ AllChecksPass
  /\ pc = "exited" <=> Did("exit")
  /\ pc = "exited" =>
       /\ exit_code \in {0, 1}
       /\ exit_code = 0 <=> shown = 1
       /\ stderr # <<>> => exit_code = 1
  /\ pc # "exited" => exit_code = -1

C6_Witness ==
  /\ steps = <<"load", "validate", "transform", "render", "exit">>
  /\ exit_code = 0
  /\ shown = 1

\* C9: the document is left unchanged by load, validate and transform: from
\* the moment it is loaded it stays the value parsed from the input, the
\* transformer works on that document's own `data` list, and the series it
\* hands over are the ones it derived.
C9_DocumentReadOnly ==
  Loaded =>
    /\ content.valid
    /\ data = content.value
    /\ Transformed => waveform_data = content.value.members["data"]
    /\ shown = 1 =>
         fig = <<[name |-> "Max", x |-> time_axis, y |-> max_values],
                 [name |-> "Min", x |-> time_axis, y |-> min_values]>>

C9_Witness ==
  /\ shown = 1
  /\ data = content.value
  /\ Len(DataItems) >= 2
  /\ data.keys = Keys

ZeroRateDocument ==
  /\ AllChecksPass
  /\ "sample_rate" \in data.keys
  /\ data.members["sample_rate"] = JNum(0)

\* C10: a document with a non-empty `data` array and sample_rate 0 passes
\* all four checks; the transformer then fails on the division before the
\* renderer is called, and the run ends in an uncaught failure with no
\* `Error:` line written.
C10_ZeroRateFailsUncaught ==
  Loaded /\ ZeroRateDocument =>
    /\ stderr = <<>>
    /\ Did("validate") => pc = "transform" \/ Did("transform")
    /\ Did("transform") =>
         /\ pc = "exited"
         /\ uncaught = (IF isinstance(samples_per_pixel, "number")
                        THEN "ZeroDivisionError" ELSE "TypeError")
         /\ ~Did("render")
         /\ shown = 0
         /\ time_axis = <<>>

C10_Witness ==
  /\ ZeroRateDocument
  /\ Did("transform")
  /\ pc = "exited"
  /\ uncaught = "ZeroDivisionError"
  /\ stderr = <<>>

====
